---- MODULE Spec2Model ----
(***************************************************************************)
(* Model of nvrhi's Vulkan Device (src/src/vulkan/vulkan-device.cpp):      *)
(* construction (queue slots, extension flags, property cache), feature    *)
(* queries, native-queue access, command-list submission, garbage          *)
(* collection, idle wait, heap creation and heap destruction.              *)
(***************************************************************************)
EXTENDS Integers, Sequences, FiniteSets, TLC

(***************************************************************************)
(* Bounds of the model.                                                    *)
(***************************************************************************)
MaxSubmissions == 2
MaxHeaps == 2
MaxInstanceExtensions == 1
MaxDeviceExtensions == 1
MaxFeatureExtensions == 2
MaxMips == 3

(***************************************************************************)
(* Values.                                                                 *)
(***************************************************************************)
NULL == 0

\* enum class CommandQueue { Graphics, Compute, Copy, Count }
CommandQueue == {"Graphics", "Compute", "Copy"}
CommandQueueValues == CommandQueue \cup {"Count"}

\* native queue handles a descriptor can carry, one per kind
VkQueueOf(q) == CASE q = "Graphics" -> 11 [] q = "Compute" -> 12 [] OTHER -> 13

ObjectTypes == {"VK_Queue", "VK_Device"}

\* the fields of m_Context.extensions
ExtensionFlags ==
    { "EXT_conservative_rasterization", "EXT_debug_marker", "EXT_debug_report",
      "EXT_debug_utils", "EXT_opacity_micromap", "KHR_acceleration_structure",
      "buffer_device_address", "KHR_fragment_shading_rate", "KHR_maintenance1",
      "KHR_ray_query", "KHR_ray_tracing_pipeline", "KHR_synchronization2",
      "NV_mesh_shader", "NV_ray_tracing_invocation_reorder",
      "NV_cluster_acceleration_structure", "EXT_mutable_descriptor_type",
      "NV_cooperative_vector", "NV_device_diagnostic_checkpoints",
      "NV_device_diagnostics_config" }

\* every flag of m_Context.extensions starts false
ExtensionsDefault == [f \in ExtensionFlags |-> FALSE]

\* the entries of extensionStringMap that every build has: <<name, flag>>
CoreExtensionEntries ==
    { <<"VK_EXT_conservative_rasterization", "EXT_conservative_rasterization">>,
      <<"VK_EXT_debug_marker", "EXT_debug_marker">>,
      <<"VK_EXT_debug_report", "EXT_debug_report">>,
      <<"VK_EXT_debug_utils", "EXT_debug_utils">>,
      <<"VK_EXT_opacity_micromap", "EXT_opacity_micromap">>,
      <<"VK_KHR_acceleration_structure", "KHR_acceleration_structure">>,
      <<"VK_KHR_buffer_device_address", "buffer_device_address">>,
      <<"VK_KHR_fragment_shading_rate", "KHR_fragment_shading_rate">>,
      <<"VK_KHR_maintenance1", "KHR_maintenance1">>,
      <<"VK_KHR_ray_query", "KHR_ray_query">>,
      <<"VK_KHR_ray_tracing_pipeline", "KHR_ray_tracing_pipeline">>,
      <<"VK_KHR_synchronization2", "KHR_synchronization2">>,
      <<"VK_NV_mesh_shader", "NV_mesh_shader">>,
      <<"VK_NV_ray_tracing_invocation_reorder", "NV_ray_tracing_invocation_reorder">>,
      <<"VK_NV_cluster_acceleration_structure", "NV_cluster_acceleration_structure">>,
      <<"VK_EXT_mutable_descriptor_type", "EXT_mutable_descriptor_type">>,
      <<"VK_NV_cooperative_vector", "NV_cooperative_vector">> }

\* the two entries compiled in under NVRHI_WITH_AFTERMATH
AftermathExtensionEntries ==
    { <<"VK_NV_device_diagnostic_checkpoints", "NV_device_diagnostic_checkpoints">>,
      <<"VK_NV_device_diagnostics_config", "NV_device_diagnostics_config">> }

\* extensionStringMap of a build: name -> flag
extensionStringMap(aftermath) ==
    LET entries == IF aftermath
                   THEN CoreExtensionEntries \cup AftermathExtensionEntries
                   ELSE CoreExtensionEntries
    IN  [n \in {e[1] : e \in entries} |->
            (CHOOSE e \in entries : e[1] = n)[2]]

\* names a descriptor's extension lists are drawn from: the whole vocabulary
\* of both builds and two names no build knows
UnknownExtensionNames == {"VK_KHR_swapchain", "VK_KHR_surface"}
ExtensionNames ==
    {e[1] : e \in CoreExtensionEntries \cup AftermathExtensionEntries}
        \cup UnknownExtensionNames

SeqsUpTo(S, n) == UNION {[1..k -> S] : k \in 0..n}

VARIABLES
    pc,           \* "new" before Device::Device has run, "live" after
    build,        \* the compile-time switches of the build
    desc,         \* the DeviceDesc handed to createDevice
    hw,           \* what the native device reports and returns
    extensions,   \* m_Context.extensions
    props,        \* the property and feature records cached in m_Context
    admin,        \* m_Context.pipelineCache, m_Context.emptyDescriptorSetLayout
    ctorLog,      \* native queries and diagnostics issued by the constructor
    m_Queues,     \* the three queue slots
    heaps,        \* every Heap object constructed so far, by identity
    allocations,  \* every native memory allocation made so far, by handle
    lastCall,     \* the last call on the device: arguments, result, diagnostics
    returned,     \* per queue kind, the IDs executeCommandLists has returned
    faulted,      \* the process has died on an invalid memory access
    texture       \* the Texture asked about, with the native answers for its image

vars == <<pc, build, desc, hw, extensions, props, admin, ctorLog, m_Queues,
          heaps, allocations, lastCall, returned, faulted, texture>>

(***************************************************************************)
(* Device::Device                                                          *)
(***************************************************************************)
EmptySlot == [present |-> FALSE, queue |-> NULL, lastSubmittedID |-> 0]

\* std::make_unique<Queue>(m_Context, kind, handle, index)
NewQueue(handle) == [present |-> TRUE, queue |-> handle, lastSubmittedID |-> 0]

\* the descriptor's native handle for a queue kind
DescQueue(d, q) ==
    CASE q = "Graphics" -> d.graphicsQueue
      [] q = "Compute"  -> d.computeQueue
      [] OTHER          -> d.transferQueue

\* the Copy slot filled on the compute handle's say-so
ConstructQueuesCopyTestsCompute(d) ==
    [q \in CommandQueue |->
        IF q = "Copy"
        THEN IF d.computeQueue # NULL THEN NewQueue(d.transferQueue) ELSE EmptySlot
        ELSE IF DescQueue(d, q) # NULL THEN NewQueue(DescQueue(d, q)) ELSE EmptySlot]

\* if (desc.graphicsQueue) m_Queues[Graphics] = make_unique<Queue>(...); etc.
ConstructQueues(d) ==
    [q \in CommandQueue |->
        IF DescQueue(d, q) # NULL THEN NewQueue(DescQueue(d, q)) ELSE EmptySlot]

\* one parsing loop: for each name of the list found in the map, set its flag
RECURSIVE ParseExtensionList(_, _, _, _)
ParseExtensionList(map, list, i, ext) ==
    IF i > Len(list) THEN ext
    ELSE ParseExtensionList(map, list, i + 1,
            IF list[i] \in DOMAIN map
            THEN [ext EXCEPT ![map[list[i]]] = TRUE]
            ELSE ext)

\* the second loop running over the instance list again
ParseExtensionsInstanceListTwice(b, d) ==
    LET map  == extensionStringMap(b.AFTERMATH)
        inst == ParseExtensionList(map, d.instanceExtensions, 1, ExtensionsDefault)
        dev  == ParseExtensionList(map, d.instanceExtensions, 1, inst)
    IN  IF d.bufferDeviceAddressSupported
        THEN [dev EXCEPT !["buffer_device_address"] = TRUE]
        ELSE dev

\* the instance list, then the device list, then the Vulkan 1.2 override
ParseExtensions(b, d) ==
    LET map  == extensionStringMap(b.AFTERMATH)
        inst == ParseExtensionList(map, d.instanceExtensions, 1, ExtensionsDefault)
        dev  == ParseExtensionList(map, d.deviceExtensions, 1, inst)
    IN  IF d.bufferDeviceAddressSupported
        THEN [dev EXCEPT !["buffer_device_address"] = TRUE]
        ELSE dev

\* the property structures the constructor can chain, in the order it tests them
OptionalPropertyKinds ==
    << <<"accelStructProperties", "KHR_acceleration_structure">>,
       <<"rayTracingPipelineProperties", "KHR_ray_tracing_pipeline">>,
       <<"shadingRateProperties", "KHR_fragment_shading_rate">>,
       <<"conservativeRasterizationProperties", "EXT_conservative_rasterization">>,
       <<"opacityMicromapProperties", "EXT_opacity_micromap">>,
       <<"nvRayTracingInvocationReorderProperties", "NV_ray_tracing_invocation_reorder">>,
       <<"nvClusterAccelerationStructureProperties", "NV_cluster_acceleration_structure">>,
       <<"nvCoopVecProperties", "NV_cooperative_vector">> >>

PropertyKinds ==
    {"subgroupProperties"} \cup
    {OptionalPropertyKinds[i][1] : i \in 1..Len(OptionalPropertyKinds)}

\* a default-constructed property structure
DefaultProperties ==
    [k \in PropertyKinds |->
        CASE k = "subgroupProperties" -> [subgroupSize |-> 0]
          [] k = "shadingRateProperties" -> [width |-> 0, height |-> 0]
          [] k = "nvRayTracingInvocationReorderProperties" -> [hint |-> "eNone"]
          [] OTHER -> [reported |-> FALSE]]

\* x.pNext = pNext; pNext = &x;  for each enabled extension: the chain, head first
RECURSIVE ChainProperties(_, _, _)
ChainProperties(ext, i, chain) ==
    IF i > Len(OptionalPropertyKinds) THEN chain
    ELSE ChainProperties(ext, i + 1,
            IF ext[OptionalPropertyKinds[i][2]]
            THEN <<OptionalPropertyKinds[i][1]>> \o chain
            ELSE chain)

\* a chain that links the acceleration-structure block whatever the flags
PropertyChainAlwaysAccelStruct(ext) ==
    ChainProperties([ext EXCEPT !["KHR_acceleration_structure"] = TRUE], 1,
                    <<"subgroupProperties">>)

PropertyChain(ext) == ChainProperties(ext, 1, <<"subgroupProperties">>)

SeqRange(s) == {s[i] : i \in 1..Len(s)}

\* physicalDevice.getProperties2: fills the chained structures, no others
GetProperties2(h, chain) ==
    [k \in PropertyKinds |->
        IF k \in SeqRange(chain) THEN h.properties[k] ELSE DefaultProperties[k]]

DefaultShadingRateFeatures == [attachmentFragmentShadingRate |-> FALSE]
DefaultCoopVecFeatures ==
    [cooperativeVector |-> FALSE, cooperativeVectorTraining |-> FALSE]

Message(severity, kind) == [severity |-> severity, kind |-> kind, detail |-> <<>>]

\* the diagnostics of the constructor, in order
ConstructorMessages(b, h, ext) ==
    (IF ext["EXT_opacity_micromap"] /\ ~ext["KHR_synchronization2"]
     THEN <<Message("Warning", "OpacityMicromapWithoutSynchronization2")>>
     ELSE <<>>)
    \o (IF b.RTXMU /\ ext["EXT_opacity_micromap"]
        THEN <<Message("Warning", "OpacityMicromapNotSupportedByRTXMU")>>
        ELSE <<>>)
    \o (IF h.pipelineCacheResult # "eSuccess"
        THEN <<Message("Error", "PipelineCacheFailed")>>
        ELSE <<>>)
    \o (IF h.descriptorSetLayoutResult # "eSuccess"
        THEN <<Message("Error", "EmptyDescriptorSetLayoutFailed")>>
        ELSE <<>>)

\* the separate getFeatures2 calls
FeatureQueries(ext) ==
    (IF ext["KHR_fragment_shading_rate"] THEN <<"shadingRateFeatures">> ELSE <<>>)
    \o (IF ext["NV_cooperative_vector"] THEN <<"coopVecFeatures">> ELSE <<>>)

PipelineCacheHandle == 21
DescriptorSetLayoutHandle == 22

\* creation that stops at the first failure
AdminCreationsStopAtFailure(h) ==
    <<[call |-> "createPipelineCache", result |-> h.pipelineCacheResult]>>
    \o (IF h.pipelineCacheResult = "eSuccess"
        THEN <<[call |-> "createDescriptorSetLayout",
                result |-> h.descriptorSetLayoutResult]>>
        ELSE <<>>)

\* the native creation calls of the constructor, in order, with their results
AdminCreations(h) ==
    <<[call |-> "createPipelineCache", result |-> h.pipelineCacheResult],
      [call |-> "createDescriptorSetLayout", result |-> h.descriptorSetLayoutResult]>>

\* the handle a creation call leaves in its output parameter: on failure the
\* native interface leaves the contents undefined, h.failedHandle is what
\* this device leaves there
CreatedHandle(h, result, handle) ==
    IF result = "eSuccess" THEN handle ELSE h.failedHandle

NoCall == [op |-> "none"]

Device ==
    /\ pc = "new"
    /\ LET ext   == ParseExtensions(build, desc)
           chain == PropertyChain(ext)
           got   == GetProperties2(hw, chain)
       IN  /\ m_Queues' = ConstructQueues(desc)
           /\ extensions' = ext
           /\ props' =
                [properties |-> got,
                 shadingRateFeatures |->
                    IF ext["KHR_fragment_shading_rate"]
                    THEN hw.shadingRateFeatures ELSE DefaultShadingRateFeatures,
                 coopVecFeatures |->
                    IF ext["NV_cooperative_vector"]
                    THEN hw.coopVecFeatures ELSE DefaultCoopVecFeatures]
           /\ admin' =
                [admin EXCEPT
                    !.pipelineCache =
                        CreatedHandle(hw, hw.pipelineCacheResult,
                                      PipelineCacheHandle),
                    !.emptyDescriptorSetLayout =
                        CreatedHandle(hw, hw.descriptorSetLayoutResult,
                                      DescriptorSetLayoutHandle)]
           /\ ctorLog' = [propertyQueries |-> <<chain>>,
                          featureQueries |-> FeatureQueries(ext),
                          created |-> AdminCreations(hw),
                          messages |-> ConstructorMessages(build, hw, ext)]
    /\ pc' = "live"
    /\ UNCHANGED <<build, desc, hw, heaps, allocations, lastCall, returned, faulted,
                   texture>>

Live == pc = "live" /\ ~faulted

ctorState == <<pc, build, desc, hw, extensions, props, admin, ctorLog, texture>>

(***************************************************************************)
(* Device::~Device                                                         *)
(***************************************************************************)
\* the objects the destructor looks at, in the order it looks at them
AdminObjects == <<"timerQueryPool", "pipelineCache", "emptyDescriptorSetLayout">>

\* a destructor that destroys without looking at the handle
ReleasedWithoutNullTest(a) ==
    [i \in 1..Len(AdminObjects) |->
        [object |-> AdminObjects[i], handle |-> a[AdminObjects[i]]]]

\* the destroy calls made for the handles a, in order
Released(a) ==
    SelectSeq([i \in 1..Len(AdminObjects) |->
                  [object |-> AdminObjects[i], handle |-> a[AdminObjects[i]]]],
              LAMBDA r : r.handle # NULL)

DeviceDestructor ==
    /\ Live
    /\ pc' = "destroyed"
    /\ admin' = [o \in DOMAIN admin |-> NULL]
    /\ lastCall' = [op |-> "~Device", destroyed |-> Released(admin)]
    /\ UNCHANGED <<build, desc, hw, extensions, props, ctorLog, texture,
                   m_Queues, heaps, allocations, returned, faulted>>

(***************************************************************************)
(* Device::getNativeQueue                                                  *)
(***************************************************************************)
\* a value read through a null Queue pointer when the read does not trap
GarbageHandle == 99

getNativeQueue(objectType, queue) ==
    /\ Live
    /\ \/ /\ objectType # "VK_Queue"
          /\ lastCall' = [op |-> "getNativeQueue", objectType |-> objectType,
                          queue |-> queue, ret |-> NULL]
          /\ UNCHANGED faulted
       \/ /\ objectType = "VK_Queue"
          /\ queue = "Count"
          /\ lastCall' = [op |-> "getNativeQueue", objectType |-> objectType,
                          queue |-> queue, ret |-> NULL]
          /\ UNCHANGED faulted
       \/ /\ objectType = "VK_Queue"
          /\ queue \in CommandQueue
          /\ m_Queues[queue].present
          /\ lastCall' = [op |-> "getNativeQueue", objectType |-> objectType,
                          queue |-> queue, ret |-> m_Queues[queue].queue]
          /\ UNCHANGED faulted
       \/ \* m_Queues[queue] is null: ->getVkQueue() dereferences a null pointer
          /\ objectType = "VK_Queue"
          /\ queue \in CommandQueue
          /\ ~m_Queues[queue].present
          /\ \/ /\ faulted' = TRUE
                /\ lastCall' = [op |-> "getNativeQueue", objectType |-> objectType,
                                queue |-> queue, ret |-> NULL]
             \/ /\ \E v \in {NULL, GarbageHandle} :
                      lastCall' = [op |-> "getNativeQueue",
                                   objectType |-> objectType,
                                   queue |-> queue, ret |-> v]
                /\ UNCHANGED faulted
    /\ UNCHANGED <<ctorState, m_Queues, heaps, allocations, returned>>

(***************************************************************************)
(* Device::executeCommandLists                                             *)
(***************************************************************************)
\* an ID read through a null Queue reference when the read does not trap
GarbageID == 77

\* uint32_t(executionQueue): the slot the call submits to
ExecutionSlotAlwaysGraphics(executionQueue) == "Graphics"

ExecutionSlot(executionQueue) == executionQueue

\* Queue::submit: advance the queue's counter and return it
QueueSubmit(queue) ==
    [queue EXCEPT !.lastSubmittedID = queue.lastSubmittedID + 1]

executeCommandLists(numCommandLists, executionQueue) ==
    /\ Live
    /\ Len(returned[executionQueue]) < MaxSubmissions
    /\ LET slot == ExecutionSlot(executionQueue) IN
       \/ /\ m_Queues[slot].present
          /\ LET after == QueueSubmit(m_Queues[slot])
                 submissionID == after.lastSubmittedID
             IN  /\ m_Queues' = [m_Queues EXCEPT ![slot] = after]
                 /\ returned' = [returned EXCEPT ![executionQueue] =
                                    Append(@, submissionID)]
                 /\ lastCall' = [op |-> "executeCommandLists",
                                 queue |-> executionQueue,
                                 numCommandLists |-> numCommandLists,
                                 ret |-> submissionID]
          /\ UNCHANGED faulted
       \/ \* *m_Queues[slot] on an empty slot: a null reference
          /\ ~m_Queues[slot].present
          /\ \/ /\ faulted' = TRUE
                /\ lastCall' = [op |-> "executeCommandLists",
                                queue |-> executionQueue,
                                numCommandLists |-> numCommandLists,
                                ret |-> NULL]
                /\ UNCHANGED <<m_Queues, returned>>
             \/ /\ \E v \in {NULL, GarbageID} :
                      lastCall' = [op |-> "executeCommandLists",
                                   queue |-> executionQueue,
                                   numCommandLists |-> numCommandLists,
                                   ret |-> v]
                /\ UNCHANGED <<m_Queues, returned, faulted>>
    /\ UNCHANGED <<ctorState, heaps, allocations>>

(***************************************************************************)
(* Device::runGarbageCollection                                            *)
(***************************************************************************)
\* for (auto& m_Queue : m_Queues) if (m_Queue) m_Queue->retireCommandBuffers();
\* the slots whose queue is asked to retire its finished command buffers
RetiredQueues == {q \in CommandQueue : m_Queues[q].present}

runGarbageCollection ==
    /\ Live
    /\ lastCall' = [op |-> "runGarbageCollection", retired |-> RetiredQueues]
    /\ UNCHANGED <<ctorState, m_Queues, heaps, allocations, returned, faulted>>

(***************************************************************************)
(* Device::waitForIdle                                                     *)
(***************************************************************************)
\* the results vkDeviceWaitIdle can give
WaitIdleResults == {"eSuccess", "eErrorDeviceLost", "eErrorOutOfHostMemory",
                    "eErrorOutOfDeviceMemory"}

\* device.waitIdle() throws on every result but success; only
\* vk::DeviceLostError is caught
waitForIdle(result) ==
    /\ Live
    /\ lastCall' =
         CASE result = "eSuccess" ->
                [op |-> "waitForIdle", native |-> result,
                 outcome |-> "returned", ret |-> TRUE]
           [] result = "eErrorDeviceLost" ->
                [op |-> "waitForIdle", native |-> result,
                 outcome |-> "returned", ret |-> FALSE]
           [] OTHER ->
                [op |-> "waitForIdle", native |-> result,
                 outcome |-> "threw", ret |-> FALSE]
    /\ UNCHANGED <<ctorState, m_Queues, heaps, allocations, returned, faulted>>

(***************************************************************************)
(* Device::queryFeatureSupport                                             *)
(***************************************************************************)
\* the Feature values the switch names, and one it does not
Features ==
    { "DeferredCommandLists", "RayTracingAccelStruct", "RayTracingPipeline",
      "RayTracingOpacityMicromap", "RayQuery", "ShaderExecutionReordering",
      "RayTracingClusters", "ShaderSpecializations", "Meshlets",
      "VariableRateShading", "ConservativeRasterization", "VirtualResources",
      "ComputeQueue", "CopyQueue", "ConstantBufferRanges", "WaveLaneCountMinMax",
      "HeapDirectlyIndexed", "CooperativeVectorInferencing",
      "CooperativeVectorTraining", "SamplerFeedback" }

\* buffer sizes a caller can pass, by the structure they are the size of
InfoSizes == {"sizeof(VariableRateShadingFeatureInfo)",
              "sizeof(WaveLaneCountMinMaxFeatureInfo)", "sizeof(other)"}

Max(a, b) == IF a >= b THEN a ELSE b

\* the micromap flag alone deciding
OpacityMicromapSupportedWithoutSync2(b, ext) ==
    IF b.RTXMU
    THEN FALSE
    ELSE ext["EXT_opacity_micromap"]

\* case Feature::RayTracingOpacityMicromap
OpacityMicromapSupported(b, ext) ==
    IF b.RTXMU
    THEN FALSE
    ELSE ext["EXT_opacity_micromap"] /\ ext["KHR_synchronization2"]

\* the value the switch returns
FeatureSupported(feature) ==
    CASE feature = "DeferredCommandLists" -> TRUE
      [] feature = "RayTracingAccelStruct" ->
            extensions["KHR_acceleration_structure"]
      [] feature = "RayTracingPipeline" ->
            extensions["KHR_ray_tracing_pipeline"]
      [] feature = "RayTracingOpacityMicromap" ->
            OpacityMicromapSupported(build, extensions)
      [] feature = "RayQuery" -> extensions["KHR_ray_query"]
      [] feature = "ShaderExecutionReordering" ->
            IF extensions["NV_ray_tracing_invocation_reorder"]
            THEN props.properties["nvRayTracingInvocationReorderProperties"].hint
                    = "eReorder"
            ELSE FALSE
      [] feature = "RayTracingClusters" ->
            extensions["NV_cluster_acceleration_structure"]
      [] feature = "ShaderSpecializations" -> TRUE
      [] feature = "Meshlets" -> extensions["NV_mesh_shader"]
      [] feature = "VariableRateShading" ->
            /\ extensions["KHR_fragment_shading_rate"]
            /\ props.shadingRateFeatures.attachmentFragmentShadingRate
      [] feature = "ConservativeRasterization" ->
            extensions["EXT_conservative_rasterization"]
      [] feature = "VirtualResources" -> TRUE
      [] feature = "ComputeQueue" -> m_Queues["Compute"].present
      [] feature = "CopyQueue" -> m_Queues["Copy"].present
      [] feature = "ConstantBufferRanges" -> TRUE
      [] feature = "WaveLaneCountMinMax" ->
            props.properties["subgroupProperties"].subgroupSize # 0
      [] feature = "HeapDirectlyIndexed" ->
            extensions["EXT_mutable_descriptor_type"]
      [] feature = "CooperativeVectorInferencing" ->
            /\ extensions["NV_cooperative_vector"]
            /\ props.coopVecFeatures.cooperativeVector
      [] feature = "CooperativeVectorTraining" ->
            /\ extensions["NV_cooperative_vector"]
            /\ props.coopVecFeatures.cooperativeVectorTraining
      [] OTHER -> FALSE

Untouched == [written |-> FALSE, values |-> <<>>]

\* does the call reach the test of infoSize, and against which size
InfoSizeExpected(feature) ==
    CASE feature = "VariableRateShading" ->
            "sizeof(VariableRateShadingFeatureInfo)"
      [] feature = "WaveLaneCountMinMax"
            /\ props.properties["subgroupProperties"].subgroupSize # 0 ->
            "sizeof(WaveLaneCountMinMaxFeatureInfo)"
      [] OTHER -> "none"

\* a payload written without the test of infoSize
FeatureInfoWrittenWithoutSizeTest(feature, hasInfo, infoSize) ==
    IF hasInfo /\ InfoSizeExpected(feature) # "none"
    THEN IF feature = "VariableRateShading"
         THEN [written |-> TRUE,
               values |-> <<Max(props.properties["shadingRateProperties"].width,
                                props.properties["shadingRateProperties"].height)>>]
         ELSE [written |-> TRUE,
               values |-> <<props.properties["subgroupProperties"].subgroupSize,
                            props.properties["subgroupProperties"].subgroupSize>>]
    ELSE Untouched

\* what the call writes through pInfo
FeatureInfoWritten(feature, hasInfo, infoSize) ==
    IF hasInfo /\ InfoSizeExpected(feature) = infoSize
    THEN IF feature = "VariableRateShading"
         THEN [written |-> TRUE,
               values |-> <<Max(props.properties["shadingRateProperties"].width,
                                props.properties["shadingRateProperties"].height)>>]
         ELSE [written |-> TRUE,
               values |-> <<props.properties["subgroupProperties"].subgroupSize,
                            props.properties["subgroupProperties"].subgroupSize>>]
    ELSE Untouched

\* utils::NotSupported() on a buffer of the wrong size
FeatureMessages(feature, hasInfo, infoSize) ==
    IF /\ hasInfo
       /\ InfoSizeExpected(feature) # "none"
       /\ InfoSizeExpected(feature) # infoSize
    THEN <<Message("Error", "UnsupportedOperation")>>
    ELSE <<>>

queryFeatureSupport(feature, hasInfo, infoSize) ==
    /\ Live
    /\ lastCall' = [op |-> "queryFeatureSupport", feature |-> feature,
                    hasInfo |-> hasInfo, infoSize |-> infoSize,
                    ret |-> FeatureSupported(feature),
                    info |-> FeatureInfoWritten(feature, hasInfo, infoSize),
                    messages |-> FeatureMessages(feature, hasInfo, infoSize)]
    /\ UNCHANGED <<ctorState, m_Queues, heaps, allocations, returned, faulted>>

(***************************************************************************)
(* Device::queryFormatSupport                                              *)
(***************************************************************************)
Formats == {"UNKNOWN", "R8_UINT", "R16_UINT", "R32_UINT", "RGBA8_UNORM", "D32"}

\* the native identifier of a format
convertFormat(format) ==
    CASE format = "UNKNOWN" -> "VK_FORMAT_UNDEFINED"
      [] format = "R8_UINT" -> "VK_FORMAT_R8_UINT"
      [] format = "R16_UINT" -> "VK_FORMAT_R16_UINT"
      [] format = "R32_UINT" -> "VK_FORMAT_R32_UINT"
      [] format = "RGBA8_UNORM" -> "VK_FORMAT_R8G8B8A8_UNORM"
      [] format = "D32" -> "VK_FORMAT_D32_SFLOAT"

VkFormats == { convertFormat(f) : f \in Formats }

\* the bits of vk::FormatProperties::bufferFeatures the device may report:
\* the four the function tests and one it does not
BufferFeatureBits ==
    {"eVertexBuffer", "eUniformTexelBuffer", "eStorageTexelBuffer",
     "eStorageTexelBufferAtomic", "eAccelerationStructureVertexBufferKHR"}

\* the bits of vk::FormatProperties::optimalTilingFeatures the device may
\* report: the seven the function tests and one it does not
OptimalTilingFeatureBits ==
    {"eDepthStencilAttachment", "eColorAttachment", "eColorAttachmentBlend",
     "eSampledImage", "eSampledImageFilterLinear", "eStorageImage",
     "eStorageImageAtomic", "eTransferSrc"}

NoFormatFeatures == [bufferFeatures |-> {}, optimalTilingFeatures |-> {}]

\* an index-buffer bit that also asks for some native buffer feature
IndexBufferFormatWithBufferFeatures(format, p) ==
    format \in {"R32_UINT", "R16_UINT"} /\ p.bufferFeatures # {}

\* the test that adds FormatSupport::IndexBuffer
IndexBufferFormat(format, p) ==
    format \in {"R32_UINT", "R16_UINT"}

Category(condition, name) == IF condition THEN {name} ELSE {}

\* the FormatSupport bits set for a format whose native properties are p
FormatSupport(format, p) ==
    Category(p.bufferFeatures # {}, "Buffer")
    \cup Category(IndexBufferFormat(format, p), "IndexBuffer")
    \cup Category("eVertexBuffer" \in p.bufferFeatures, "VertexBuffer")
    \cup Category(p.optimalTilingFeatures # {}, "Texture")
    \cup Category("eDepthStencilAttachment" \in p.optimalTilingFeatures,
                  "DepthStencil")
    \cup Category("eColorAttachment" \in p.optimalTilingFeatures, "RenderTarget")
    \cup Category("eColorAttachmentBlend" \in p.optimalTilingFeatures, "Blendable")
    \cup Category(\/ "eSampledImage" \in p.optimalTilingFeatures
                  \/ "eUniformTexelBuffer" \in p.bufferFeatures,
                  "ShaderLoad")
    \cup Category("eSampledImageFilterLinear" \in p.optimalTilingFeatures,
                  "ShaderSample")
    \cup Category(\/ "eStorageImage" \in p.optimalTilingFeatures
                  \/ "eStorageTexelBuffer" \in p.bufferFeatures,
                  "ShaderUavLoad")
    \cup Category(\/ "eStorageImage" \in p.optimalTilingFeatures
                  \/ "eStorageTexelBuffer" \in p.bufferFeatures,
                  "ShaderUavStore")
    \cup Category(\/ "eStorageImageAtomic" \in p.optimalTilingFeatures
                  \/ "eStorageTexelBufferAtomic" \in p.bufferFeatures,
                  "ShaderAtomic")

queryFormatSupport(format) ==
    /\ Live
    /\ lastCall' = [op |-> "queryFormatSupport", format |-> format,
                    ret |-> FormatSupport(format,
                                          hw.formatProperties[convertFormat(format)])]
    /\ UNCHANGED <<ctorState, m_Queues, heaps, allocations, returned, faulted>>

(***************************************************************************)
(* Device::getTextureTiling                                                *)
(***************************************************************************)
\* the all-ones 32-bit word, written as that word reads when signed
UINT32_MAX == -1

Min(a, b) == IF a < b THEN a ELSE b
CeilDiv(a, b) == (a + b - 1) \div b

\* numStandardMips after getImageSparseMemoryRequirements
numStandardMips(t) ==
    IF t.sparseMemoryRequirements # <<>>
    THEN t.sparseMemoryRequirements[1].imageMipTailFirstLod
    ELSE 0

\* tileWidth, tileHeight, tileDepth after getSparseImageFormatProperties
TileExtent(t) ==
    IF t.sparseFormatProperties # <<>>
    THEN t.sparseFormatProperties[1].imageGranularity
    ELSE [width |-> 1, height |-> 1, depth |-> 1]

\* what memoryRequirements[0] reads past the end of an empty vector when the
\* read does not trap
GarbageRequirements ==
    [imageMipTailFirstLod |-> 0, imageMipTailOffset |-> 7, imageMipTailSize |-> 9]

\* the fields assigned through desc, from the element req = memoryRequirements[0]
PackedMipDesc(t, req) ==
    [numStandardMips |-> numStandardMips(t),
     numPackedMips |-> t.mipLevels - req.imageMipTailFirstLod,
     startTileIndexInOverallResource |-> req.imageMipTailOffset \div t.tileByteSize,
     numTilesForPackedMips |-> req.imageMipTailSize \div t.tileByteSize]

TileShape(t) ==
    [widthInTexels |-> TileExtent(t).width,
     heightInTexels |-> TileExtent(t).height,
     depthInTexels |-> TileExtent(t).depth]

\* an accumulator that leaves the depth of the level out
TilesInLevelWithoutDepth(tiling) ==
    tiling.widthInTiles * tiling.heightInTiles

\* what one level adds to startTileIndexInOverallResource
TilesInLevel(tiling) ==
    tiling.widthInTiles * tiling.heightInTiles * tiling.depthInTiles

\* the loop over the levels i .. num-1, entered with the extents of level i
\* and the accumulated start index
RECURSIVE SubresourceTilings(_, _, _, _, _, _, _)
SubresourceTilings(t, num, i, width, height, depth, start) ==
    IF i >= num
    THEN <<>>
    ELSE LET tile == TileExtent(t)
             tiling ==
                IF i < numStandardMips(t)
                THEN [widthInTiles |-> CeilDiv(width, tile.width),
                      heightInTiles |-> CeilDiv(height, tile.height),
                      depthInTiles |-> CeilDiv(depth, tile.depth),
                      startTileIndexInOverallResource |-> start]
                ELSE [widthInTiles |-> 0,
                      heightInTiles |-> 0,
                      depthInTiles |-> 0,
                      startTileIndexInOverallResource |-> UINT32_MAX]
         IN  <<tiling>> \o
             SubresourceTilings(t, num, i + 1,
                                Max(width \div 2, tile.width),
                                Max(height \div 2, tile.height),
                                Max(depth \div 2, tile.depth),
                                start + TilesInLevel(tiling))

\* *numTiles
NumTiles(t) == t.memorySize \div t.tileByteSize

\* the five output pointers of the call
TilingOutputs ==
    {"numTiles", "desc", "tileShape", "subresourceTilingsNum", "subresourceTilings"}

Written(v) == [written |-> TRUE, values |-> v]

\* supplied: the output pointers that are not null; requested: the value of
\* *subresourceTilingsNum on entry.  The call stops at "desc" when the read of
\* memoryRequirements[0] traps, at "tilings" when the store through a null
\* subresourceTilings traps, and is "done" otherwise.
getTextureTiling(supplied, requested) ==
    /\ Live
    /\ LET t == texture
           num == Min(requested, t.mipLevels)
           readsPastEnd ==
                "desc" \in supplied /\ t.sparseMemoryRequirements = <<>>
           storesThroughNull ==
                /\ "subresourceTilingsNum" \in supplied
                /\ "subresourceTilings" \notin supplied
                /\ num > 0
           req == IF t.sparseMemoryRequirements # <<>>
                  THEN t.sparseMemoryRequirements[1]
                  ELSE GarbageRequirements
           Out(stopped) ==
                [desc |->
                    IF "desc" \in supplied /\ stopped # "desc"
                    THEN Written(PackedMipDesc(t, req)) ELSE Untouched,
                 tileShape |->
                    IF "tileShape" \in supplied /\ stopped # "desc"
                    THEN Written(TileShape(t)) ELSE Untouched,
                 subresourceTilingsNum |->
                    IF "subresourceTilingsNum" \in supplied /\ stopped # "desc"
                    THEN Written(num) ELSE Untouched,
                 subresourceTilings |->
                    IF /\ {"subresourceTilingsNum", "subresourceTilings"} \subseteq supplied
                       /\ stopped = "done"
                    THEN Written(SubresourceTilings(t, num, 0, t.width, t.height,
                                                    t.depth, 0))
                    ELSE Untouched,
                 numTiles |->
                    IF "numTiles" \in supplied /\ stopped = "done"
                    THEN Written(NumTiles(t)) ELSE Untouched]
       IN  \E stopped \in (IF readsPastEnd THEN {"desc"} ELSE {})
                          \cup (IF storesThroughNull THEN {"tilings"} ELSE {"done"}) :
              /\ lastCall' = [op |-> "getTextureTiling", supplied |-> supplied,
                              requested |-> requested, stopped |-> stopped,
                              out |-> Out(stopped)]
              /\ faulted' = (stopped # "done")
    /\ UNCHANGED <<ctorState, m_Queues, heaps, allocations, returned>>

(***************************************************************************)
(* Device::createHeap, Heap::~Heap                                         *)
(***************************************************************************)
HeapTypes == {"DeviceLocal", "Upload", "Readback"}

\* a HeapType value outside the enumeration
HeapTypeValues == HeapTypes \cup {"Invalid"}

DefaultHeapDesc == [capacity |-> 0, type |-> "DeviceLocal", debugName |-> ""]

\* new Heap(m_Allocator): no memory yet; the history fields record what the
\* allocator was asked to do with this object
NewHeap == [alive |-> TRUE, desc |-> DefaultHeapDesc, memory |-> NULL,
            managed |-> TRUE, allocResult |-> "none", freeCalls |-> 0,
            memoryAtDestruction |-> NULL]

\* the cases of switch(d.type) that break
HeapTypeRecognizedFallsThrough(type) == TRUE

HeapTypeRecognized(type) == type \in HeapTypes

MemoryPropertyFlags(type) ==
    CASE type = "DeviceLocal" -> {"eDeviceLocal"}
      [] type = "Upload"      -> {"eHostVisible"}
      [] type = "Readback"    -> {"eHostVisible", "eHostCached"}
      [] OTHER                -> {}

\* heap->desc = d
HeapDescAssignedNot(d) == DefaultHeapDesc

HeapDescAssigned(d) == d

\* the results vkAllocateMemory can give
AllocateResults == {"eSuccess", "eErrorOutOfDeviceMemory", "eErrorOutOfHostMemory"}

\* VulkanAllocator::allocateMemory: on success the resource holds the new
\* native memory, on failure it holds none
AllocateMemory(heap, allocs, size, flags, enableDeviceAddress, result) ==
    IF result = "eSuccess"
    THEN [heap |-> [heap EXCEPT !.memory = Len(allocs) + 1,
                                !.allocResult = result],
          allocations |-> Append(allocs,
                [size |-> size, flags |-> flags,
                 deviceAddress |-> enableDeviceAddress,
                 live |-> TRUE, frees |-> 0, name |-> ""])]
    ELSE [heap |-> [heap EXCEPT !.memory = NULL, !.allocResult = result],
          allocations |-> allocs]

\* what is left of an allocation once the device has taken it back
FreedAllocation(frees) ==
    [size |-> 0, flags |-> {}, deviceAddress |-> FALSE,
     live |-> FALSE, frees |-> frees, name |-> ""]

\* VulkanAllocator::freeMemory: hand the resource's memory back to the device
FreeMemory(heap, allocs) ==
    [heap |-> [heap EXCEPT !.freeCalls = heap.freeCalls + 1],
     allocations |->
        IF heap.memory # NULL
        THEN [allocs EXCEPT ![heap.memory] =
                                FreedAllocation(allocs[heap.memory].frees + 1)]
        ELSE allocs]

\* if (memory && managed)
ShouldFreeIgnoresHandle(heap) == heap.managed

ShouldFree(heap) == heap.memory # NULL /\ heap.managed

\* Heap::~Heap, leaving the handle as it was
HeapDestructorKeepsHandle(heap, allocs) ==
    LET h0 == [heap EXCEPT !.memoryAtDestruction = heap.memory,
                           !.alive = FALSE,
                           !.desc = DefaultHeapDesc]
    IN  IF ShouldFree(heap)
        THEN FreeMemory(h0, allocs)
        ELSE [heap |-> h0, allocations |-> allocs]

\* Heap::~Heap; the object is gone afterwards, its last field values are kept
HeapDestructor(heap, allocs) ==
    LET h0 == [heap EXCEPT !.memoryAtDestruction = heap.memory,
                           !.alive = FALSE,
                           !.desc = DefaultHeapDesc]
    IN  IF ShouldFree(heap)
        THEN LET freed == FreeMemory(h0, allocs)
             IN  [heap |-> [freed.heap EXCEPT !.memory = NULL],
                  allocations |-> freed.allocations]
        ELSE [heap |-> h0, allocations |-> allocs]

\* delete heap; on the failure path of createHeap
DeletePartialHeapLeaks(heap, allocs) == [heap |-> heap, allocations |-> allocs]

DeletePartialHeap(heap, allocs) == HeapDestructor(heap, allocs)

\* utils::DebugNameToString
DebugNameToString(name) == name

\* VulkanContext::nameVKObject on a device memory handle
nameVKObject(allocs, handle, name) ==
    IF name = "" \/ handle = NULL
    THEN allocs
    ELSE IF extensions["EXT_debug_utils"] \/ extensions["EXT_debug_marker"]
         THEN [allocs EXCEPT ![handle].name = name]
         ELSE allocs

createHeap(d, result) ==
    /\ Live
    /\ IF ~HeapTypeRecognized(d.type)
       THEN /\ lastCall' = [op |-> "createHeap", desc |-> d, native |-> "none",
                            ret |-> NULL,
                            messages |-> <<Message("Error", "InvalidEnum")>>]
            /\ UNCHANGED <<heaps, allocations>>
       ELSE /\ Len(heaps) < MaxHeaps
            /\ result \in AllocateResults
            /\ LET heap == [NewHeap EXCEPT !.desc = HeapDescAssigned(d),
                                           !.managed = TRUE]
                   enableDeviceAddress == extensions["buffer_device_address"]
                   got == AllocateMemory(heap, allocations, d.capacity,
                                         MemoryPropertyFlags(d.type),
                                         enableDeviceAddress, result)
               IN  IF result # "eSuccess"
                   THEN LET gone == DeletePartialHeap(got.heap, got.allocations)
                        IN  /\ heaps' = Append(heaps, gone.heap)
                            /\ allocations' = gone.allocations
                            /\ lastCall' =
                                 [op |-> "createHeap", desc |-> d,
                                  native |-> result, ret |-> NULL,
                                  messages |->
                                    <<[severity |-> "Error",
                                       kind |-> "AllocationFailure",
                                       detail |-> <<DebugNameToString(d.debugName),
                                                    result>>]>>]
                   ELSE /\ heaps' = Append(heaps, got.heap)
                        /\ allocations' = nameVKObject(got.allocations,
                                                       got.heap.memory, d.debugName)
                        /\ lastCall' = [op |-> "createHeap", desc |-> d,
                                        native |-> result,
                                        ret |-> Len(heaps) + 1,
                                        messages |-> <<>>]
    /\ UNCHANGED <<ctorState, m_Queues, returned, faulted>>

\* the last reference to a HeapHandle goes away: delete, hence ~Heap
ReleaseHeap(h) ==
    /\ Live
    /\ h \in 1..Len(heaps)
    /\ heaps[h].alive
    /\ LET gone == HeapDestructor(heaps[h], allocations)
       IN  /\ heaps' = [heaps EXCEPT ![h] = gone.heap]
           /\ allocations' = gone.allocations
    /\ lastCall' = [op |-> "releaseHeap", heap |-> h]
    /\ UNCHANGED <<ctorState, m_Queues, returned, faulted>>

(***************************************************************************)
(* Inputs: the builds, descriptors and native devices the checks range over *)
(***************************************************************************)
DefaultBuild == [RTXMU |-> FALSE, AFTERMATH |-> FALSE]
Builds == [RTXMU : BOOLEAN, AFTERMATH : BOOLEAN]

\* a native device that reports nothing special and fails nothing
PlainProperties ==
    [k \in PropertyKinds |->
        CASE k = "subgroupProperties" -> [subgroupSize |-> 32]
          [] k = "shadingRateProperties" -> [width |-> 8, height |-> 16]
          [] k = "nvRayTracingInvocationReorderProperties" -> [hint |-> "eReorder"]
          [] OTHER -> [reported |-> TRUE]]

PlainHardware ==
    [properties |-> PlainProperties,
     shadingRateFeatures |-> [attachmentFragmentShadingRate |-> TRUE],
     coopVecFeatures |-> [cooperativeVector |-> TRUE,
                          cooperativeVectorTraining |-> FALSE],
     pipelineCacheResult |-> "eSuccess",
     descriptorSetLayoutResult |-> "eSuccess",
     failedHandle |-> NULL,
     formatProperties |-> [f \in VkFormats |-> NoFormatFeatures]]

QueueHandles(q) == {NULL, VkQueueOf(q)}

DeviceDescs(instanceLists, deviceLists, overrides) ==
    [graphicsQueue : QueueHandles("Graphics"),
     computeQueue : QueueHandles("Compute"),
     transferQueue : QueueHandles("Copy"),
     instanceExtensions : instanceLists,
     deviceExtensions : deviceLists,
     bufferDeviceAddressSupported : overrides]

HeapDescs(capacities, types, names) ==
    [capacity : capacities, type : types, debugName : names]

\* the state before Device::Device runs
\* a texture of one texel and one mip whose image is not sparse
DefaultTexture ==
    [width |-> 1, height |-> 1, depth |-> 1, mipLevels |-> 1,
     tileByteSize |-> 1, memorySize |-> 1,
     sparseMemoryRequirements |-> <<>>, sparseFormatProperties |-> <<>>]

Unconstructed ==
    /\ pc = "new"
    /\ extensions = ExtensionsDefault
    /\ props = [properties |-> DefaultProperties,
                shadingRateFeatures |-> DefaultShadingRateFeatures,
                coopVecFeatures |-> DefaultCoopVecFeatures]
    /\ admin = [timerQueryPool |-> NULL, pipelineCache |-> NULL,
                emptyDescriptorSetLayout |-> NULL]
    /\ ctorLog = [propertyQueries |-> <<>>, featureQueries |-> <<>>,
                  created |-> <<>>, messages |-> <<>>]
    /\ m_Queues = [q \in CommandQueue |-> EmptySlot]
    /\ heaps = <<>>
    /\ allocations = <<>>
    /\ lastCall = NoCall
    /\ returned = [q \in CommandQueue |-> <<>>]
    /\ faulted = FALSE

(***************************************************************************)
(* Spec: a device with any combination of queues; submission, retirement,  *)
(* idle wait, queue queries, heaps                                         *)
(***************************************************************************)
Init ==
    /\ build = DefaultBuild
    /\ hw = PlainHardware
    /\ desc \in DeviceDescs({<<>>}, {<<>>}, {FALSE})
    /\ texture = DefaultTexture
    /\ Unconstructed

Next ==
    \/ Device
    \/ \E t \in ObjectTypes, q \in CommandQueueValues : getNativeQueue(t, q)
    \/ \E n \in 0..1, q \in CommandQueue : executeCommandLists(n, q)
    \/ runGarbageCollection
    \/ \E r \in WaitIdleResults : waitForIdle(r)
    \/ \E f \in {"ComputeQueue", "CopyQueue"} :
          queryFeatureSupport(f, FALSE, "sizeof(other)")
    \/ \E d \in HeapDescs({1}, {"Upload", "Invalid"}, {""}) :
          createHeap(d, "eSuccess")
    \/ \E h \in 1..MaxHeaps : ReleaseHeap(h)

Spec == Init /\ [][Next]_vars

(***************************************************************************)
(* Properties of Spec                                                      *)
(***************************************************************************)
Last(s) == s[Len(s)]

StrictlyIncreasing(s) == \A i \in 1..(Len(s) - 1) : s[i] < s[i + 1]

\* C1: on every populated queue kind the IDs executeCommandLists has returned
\* are strictly increasing, and the kind's counter stands at the last ID
\* returned for this kind (0 before the first), whatever was submitted to the
\* other kinds in between: the next ID of a kind depends on its own calls only.
C1_SubmissionIDsIncreasePerQueue ==
    \A q \in CommandQueue :
        m_Queues[q].present =>
            /\ StrictlyIncreasing(returned[q])
            /\ m_Queues[q].lastSubmittedID =
                  IF returned[q] = <<>> THEN 0 ELSE Last(returned[q])

\* two IDs returned on one kind, with a submission to another kind made too
C1_Witness ==
    /\ lastCall.op = "executeCommandLists"
    /\ \E q, k \in CommandQueue :
          /\ q # k
          /\ m_Queues[q].present /\ m_Queues[k].present
          /\ Len(returned[q]) >= 2
          /\ Len(returned[k]) >= 1

\* C2: getNativeQueue(VK_Queue, kind) on a kind whose slot is empty returns
\* null and does not fault.
C2_EmptySlotGivesNull ==
    ( /\ lastCall.op = "getNativeQueue"
      /\ lastCall.objectType = "VK_Queue"
      /\ lastCall.queue \in CommandQueue
      /\ ~m_Queues[lastCall.queue].present )
    => (~faulted /\ lastCall.ret = NULL)

\* C3: once constructed, a queue slot is populated iff the descriptor carried
\* a handle for its kind, whatever calls have been made since, and
\* queryFeatureSupport(ComputeQueue / CopyQueue) answers exactly that.
C3_SlotsFollowDescriptor ==
    pc = "live" =>
        /\ \A q \in CommandQueue :
              m_Queues[q].present <=> (DescQueue(desc, q) # NULL)
        /\ ( lastCall.op = "queryFeatureSupport"
             /\ lastCall.feature = "ComputeQueue" )
           => (lastCall.ret <=> (desc.computeQueue # NULL))
        /\ ( lastCall.op = "queryFeatureSupport"
             /\ lastCall.feature = "CopyQueue" )
           => (lastCall.ret <=> (desc.transferQueue # NULL))

\* Graphics and Compute populated, Copy absent; after a submission and a heap
\* creation the copy-queue query answers false
C3_Witness ==
    /\ pc = "live"
    /\ desc.graphicsQueue # NULL /\ desc.computeQueue # NULL
    /\ desc.transferQueue = NULL
    /\ returned["Graphics"] # <<>>
    /\ heaps # <<>>
    /\ lastCall.op = "queryFeatureSupport"
    /\ lastCall.feature = "CopyQueue"
    /\ lastCall.ret = FALSE

(***************************************************************************)
(* SpecHeap: heap creation and destruction on a device whose descriptor    *)
(* varies the extensions createHeap reads                                  *)
(***************************************************************************)
InitHeap ==
    /\ build = DefaultBuild
    /\ hw = PlainHardware
    /\ desc \in DeviceDescs({<<>>},
                            SeqsUpTo({"VK_EXT_debug_utils", "VK_EXT_debug_marker"},
                                     MaxDeviceExtensions),
                            BOOLEAN)
    /\ desc.graphicsQueue # NULL
    /\ desc.computeQueue = NULL
    /\ desc.transferQueue = NULL
    /\ texture = DefaultTexture
    /\ Unconstructed

NextHeap ==
    \/ Device
    \/ \E d \in HeapDescs({1, 2}, HeapTypeValues, {"", "scene"}),
          r \in AllocateResults : createHeap(d, r)
    \/ \E h \in 1..MaxHeaps : ReleaseHeap(h)

SpecHeap == InitHeap /\ [][NextHeap]_vars

AliveHeaps == {h \in 1..Len(heaps) : heaps[h].alive}

\* C4: createHeap of a recognized type whose native allocation succeeds
\* returns a non-null handle to a live heap whose descriptor reports the
\* requested capacity.
C4_CreateHeapReportsCapacity ==
    ( /\ lastCall.op = "createHeap"
      /\ lastCall.desc.type \in HeapTypes
      /\ lastCall.native = "eSuccess" )
    => /\ lastCall.ret # NULL
       /\ lastCall.ret \in AliveHeaps
       /\ heaps[lastCall.ret].desc.capacity = lastCall.desc.capacity
       /\ heaps[lastCall.ret].memory # NULL

\* a Readback heap of capacity 2 created after another heap
C4_Witness ==
    /\ lastCall.op = "createHeap"
    /\ lastCall.desc.type = "Readback"
    /\ lastCall.desc.capacity = 2
    /\ lastCall.ret = 2
    /\ heaps[2].alive

InvalidEnumCall(call) ==
    /\ call.op = "createHeap"
    /\ call.desc.type \notin HeapTypes

\* C5: a createHeap call with an unrecognized type returns null with exactly
\* one InvalidEnum diagnostic, constructs no Heap, makes no native allocation
\* and leaves the heaps and allocations as they were.
C5_InvalidTypeAllocatesNothing ==
    [][ InvalidEnumCall(lastCall') =>
          /\ lastCall'.ret = NULL
          /\ lastCall'.messages = <<Message("Error", "InvalidEnum")>>
          /\ lastCall'.native = "none"
          /\ heaps' = heaps
          /\ allocations' = allocations ]_vars

\* an unrecognized type rejected while a heap is alive
C5_Witness ==
    /\ InvalidEnumCall(lastCall)
    /\ lastCall.ret = NULL
    /\ AliveHeaps # {}

FailedAllocationCall(call) ==
    /\ call.op = "createHeap"
    /\ call.native \notin {"none", "eSuccess"}

\* C6: a createHeap call whose native allocation fails returns null with one
\* Error diagnostic carrying the debug name and the result code; the Heap it
\* constructed is destroyed holding no memory, no other heap changes, and no
\* allocation is made, freed or named.
C6_FailedAllocationReleasesHeap ==
    [][ FailedAllocationCall(lastCall') =>
          /\ lastCall'.ret = NULL
          /\ lastCall'.messages =
                <<[severity |-> "Error", kind |-> "AllocationFailure",
                   detail |-> <<lastCall'.desc.debugName, lastCall'.native>>]>>
          /\ Len(heaps') = Len(heaps) + 1
          /\ SubSeq(heaps', 1, Len(heaps)) = heaps
          /\ ~Last(heaps').alive
          /\ Last(heaps').memory = NULL
          /\ Last(heaps').freeCalls = 0
          /\ allocations' = allocations ]_vars

\* a named heap fails to allocate on a device that names its allocations
C6_Witness ==
    /\ FailedAllocationCall(lastCall)
    /\ lastCall.desc.debugName # ""
    /\ extensions["EXT_debug_utils"]
    /\ lastCall.ret = NULL
    /\ ~Last(heaps).alive
    /\ \E a \in 1..Len(allocations) : allocations[a].name # ""

C8_HandleNonNullIffAllocatedAndNotFreed ==
    \A h \in 1..Len(heaps) :
        (heaps[h].memory # NULL) <=>
            (heaps[h].allocResult = "eSuccess" /\ heaps[h].freeCalls = 0)

\* a live heap holding memory beside a heap whose memory has been freed
C8_Witness ==
    /\ \E h \in 1..Len(heaps) :
          heaps[h].alive /\ heaps[h].memory # NULL
    /\ \E h \in 1..Len(heaps) :
          /\ heaps[h].allocResult = "eSuccess"
          /\ heaps[h].freeCalls > 0
          /\ heaps[h].memory = NULL
    /\ lastCall.op = "releaseHeap"

(***************************************************************************)
(* SpecCaps: construction over the whole extension vocabulary              *)
(***************************************************************************)
\* names tried in the instance list: two instance extensions, a device
\* extension put in the wrong list, a name outside the vocabulary
InstanceListNames == {"VK_EXT_debug_report", "VK_EXT_debug_utils",
                      "VK_KHR_buffer_device_address", "VK_KHR_surface"}

GraphicsOnly(d) ==
    /\ d.graphicsQueue # NULL
    /\ d.computeQueue = NULL
    /\ d.transferQueue = NULL

InitCaps ==
    /\ build \in Builds
    /\ hw = PlainHardware
    /\ desc \in DeviceDescs(SeqsUpTo(InstanceListNames, MaxInstanceExtensions),
                            SeqsUpTo(ExtensionNames, MaxDeviceExtensions),
                            BOOLEAN)
    /\ GraphicsOnly(desc)
    /\ texture = DefaultTexture
    /\ Unconstructed

NextCaps == Device

SpecCaps == InitCaps /\ [][NextCaps]_vars

\* the vocabulary of a build, as <<name, flag>> pairs
Vocabulary(b) ==
    IF b.AFTERMATH
    THEN CoreExtensionEntries \cup AftermathExtensionEntries
    ELSE CoreExtensionEntries

NamesGiven(d) == SeqRange(d.instanceExtensions) \cup SeqRange(d.deviceExtensions)

\* C9: after construction a flag is true iff a vocabulary name of the flag
\* occurs in the instance list or in the device list, or the flag is
\* buffer_device_address and the descriptor's override bit is set; names
\* outside the vocabulary set nothing.
C9_FlagsFollowExtensionLists ==
    pc = "live" =>
        \A f \in ExtensionFlags :
            extensions[f] <=>
                \/ \E n \in NamesGiven(desc) : <<n, f>> \in Vocabulary(build)
                \/ f = "buffer_device_address" /\ desc.bufferDeviceAddressSupported

\* a vocabulary name in the instance list, an unknown name in the device
\* list and the override bit: exactly two flags come out true
C9_Witness ==
    /\ pc = "live"
    /\ desc.instanceExtensions = <<"VK_EXT_debug_utils">>
    /\ desc.deviceExtensions = <<"VK_KHR_swapchain">>
    /\ desc.bufferDeviceAddressSupported
    /\ {f \in ExtensionFlags : extensions[f]} =
            {"EXT_debug_utils", "buffer_device_address"}

(***************************************************************************)
(* SpecFeatures: feature queries over builds, extension sets and native    *)
(* devices                                                                 *)
(***************************************************************************)
FeatureExtensionNames ==
    {"VK_EXT_opacity_micromap", "VK_KHR_synchronization2",
     "VK_KHR_fragment_shading_rate", "VK_NV_ray_tracing_invocation_reorder",
     "VK_NV_cooperative_vector"}

\* a native device with no subgroups, no reordering and no optional features
BareHardware ==
    [properties |->
        [k \in PropertyKinds |->
            CASE k = "subgroupProperties" -> [subgroupSize |-> 0]
              [] k = "shadingRateProperties" -> [width |-> 16, height |-> 8]
              [] k = "nvRayTracingInvocationReorderProperties" -> [hint |-> "eNone"]
              [] OTHER -> [reported |-> TRUE]],
     shadingRateFeatures |-> [attachmentFragmentShadingRate |-> FALSE],
     coopVecFeatures |-> [cooperativeVector |-> FALSE,
                          cooperativeVectorTraining |-> FALSE],
     pipelineCacheResult |-> "eSuccess",
     descriptorSetLayoutResult |-> "eSuccess",
     failedHandle |-> NULL,
     formatProperties |-> [f \in VkFormats |-> NoFormatFeatures]]

Hardwares == {PlainHardware, BareHardware}

InitFeatures ==
    /\ build \in [RTXMU : BOOLEAN, AFTERMATH : {FALSE}]
    /\ hw \in Hardwares
    /\ desc \in DeviceDescs({<<>>},
                            SeqsUpTo(FeatureExtensionNames, MaxFeatureExtensions),
                            {FALSE})
    /\ desc.graphicsQueue # NULL
    /\ desc.computeQueue # NULL
    /\ desc.transferQueue = NULL
    /\ texture = DefaultTexture
    /\ Unconstructed

NextFeatures ==
    \/ Device
    \/ \E f \in Features : queryFeatureSupport(f, FALSE, "sizeof(other)")
    \/ \E f \in Features, size \in InfoSizes : queryFeatureSupport(f, TRUE, size)

SpecFeatures == InitFeatures /\ [][NextFeatures]_vars

OpacityMicromapQuery ==
    /\ lastCall.op = "queryFeatureSupport"
    /\ lastCall.feature = "RayTracingOpacityMicromap"

\* C10 as stated: the opacity-micromap query answers true iff the micromap
\* flag and the synchronization-v2 flag are both set.
C10_MicromapNeedsBothFlags ==
    OpacityMicromapQuery =>
        (lastCall.ret <=>
            (extensions["EXT_opacity_micromap"] /\ extensions["KHR_synchronization2"]))

\* C10 amended: in a build without NVRHI_WITH_RTXMU the opacity-micromap
\* query answers true iff both flags are set; in a build with
\* NVRHI_WITH_RTXMU it answers false whatever the flags.
C10_MicromapNeedsBothFlagsAndNoRTXMU ==
    OpacityMicromapQuery =>
        (lastCall.ret <=>
            /\ ~build.RTXMU
            /\ extensions["EXT_opacity_micromap"]
            /\ extensions["KHR_synchronization2"])

\* both flags set in a build without RTXMU: the query answers true
C10_Witness ==
    /\ OpacityMicromapQuery
    /\ ~build.RTXMU
    /\ extensions["EXT_opacity_micromap"]
    /\ extensions["KHR_synchronization2"]
    /\ lastCall.ret = TRUE

(***************************************************************************)
(* C11: queryFeatureSupport with a buffer of the wrong size                *)
(***************************************************************************)
\* the payload size the interface documents for a capability
PayloadSize(feature) ==
    CASE feature = "VariableRateShading" -> "sizeof(VariableRateShadingFeatureInfo)"
      [] feature = "WaveLaneCountMinMax" -> "sizeof(WaveLaneCountMinMaxFeatureInfo)"
      [] OTHER -> "none"

FeatureQuery(call) == call.op = "queryFeatureSupport"

SizeMismatchQuery(call) ==
    /\ FeatureQuery(call)
    /\ call.hasInfo
    /\ call.infoSize # PayloadSize(call.feature)

\* the answer is the one the preceding query of the same capability gave,
\* whatever buffer that query was given
SameAnswerAsBefore ==
    (FeatureQuery(lastCall) /\ lastCall.feature = lastCall'.feature)
        => lastCall'.ret = lastCall.ret

\* C11 as stated: for every capability, a query with a non-null buffer whose
\* size differs from the capability's payload size reports one
\* UnsupportedOperation diagnostic, writes nothing to the buffer and answers
\* as a query of that capability with another buffer does.
C11_SizeMismatchReportsAndKeepsAnswer ==
    [][SizeMismatchQuery(lastCall') =>
          /\ lastCall'.messages = <<Message("Error", "UnsupportedOperation")>>
          /\ lastCall'.info = Untouched
          /\ SameAnswerAsBefore]_vars

\* the two capabilities whose case tests infoSize; WaveLaneCountMinMax
\* returns before the test when the subgroup size is zero
SizeTested(feature) ==
    \/ feature = "VariableRateShading"
    \/ /\ feature = "WaveLaneCountMinMax"
       /\ props.properties["subgroupProperties"].subgroupSize # 0

\* C11 amended: a query with a non-null buffer of the wrong size writes
\* nothing to the buffer and answers as a query of that capability with
\* another buffer does; it reports one UnsupportedOperation diagnostic when
\* the capability is VariableRateShading, or WaveLaneCountMinMax with a
\* non-zero subgroup size, and no diagnostic for any other capability.
C11_SizeMismatchReportsForPayloadCapabilities ==
    [][SizeMismatchQuery(lastCall') =>
          /\ lastCall'.messages =
                IF SizeTested(lastCall'.feature)
                THEN <<Message("Error", "UnsupportedOperation")>>
                ELSE <<>>
          /\ lastCall'.info = Untouched
          /\ SameAnswerAsBefore]_vars

\* a supported VariableRateShading query given a buffer of the other
\* payload's size: diagnostic reported, nothing written, answer still true
C11_Witness ==
    /\ SizeMismatchQuery(lastCall)
    /\ lastCall.feature = "VariableRateShading"
    /\ lastCall.infoSize = "sizeof(WaveLaneCountMinMaxFeatureInfo)"
    /\ lastCall.messages = <<Message("Error", "UnsupportedOperation")>>
    /\ lastCall.info = Untouched
    /\ lastCall.ret = TRUE

(***************************************************************************)
(* SpecTiling: getTextureTiling on a constructed device, over textures,    *)
(* native answers, and every choice of supplied outputs                    *)
(***************************************************************************)
\* getImageSparseMemoryRequirements for an image of the given mip count:
\* no entry, or one entry whose mip tail starts at any level
SparseMemoryRequirements(mipLevels) ==
    {<<>>} \cup
    { <<[imageMipTailFirstLod |-> k, imageMipTailOffset |-> 6,
         imageMipTailSize |-> 4]>> : k \in 0..mipLevels }

\* getSparseImageFormatProperties: no entry, or one entry with a granularity
SparseFormatProperties ==
    { <<>>,
      <<[imageGranularity |-> [width |-> 4, height |-> 2, depth |-> 1]]>>,
      <<[imageGranularity |-> [width |-> 2, height |-> 2, depth |-> 2]]>> }

Textures ==
    UNION { [width : {5, 8}, height : {4}, depth : {1, 2},
             mipLevels : {m}, tileByteSize : {2}, memorySize : {9},
             sparseMemoryRequirements : SparseMemoryRequirements(m),
             sparseFormatProperties : SparseFormatProperties] : m \in 1..MaxMips }

InitTiling ==
    /\ build = DefaultBuild
    /\ hw = PlainHardware
    /\ desc \in DeviceDescs({<<>>}, {<<>>}, {FALSE})
    /\ GraphicsOnly(desc)
    /\ texture \in Textures
    /\ Unconstructed

NextTiling ==
    \/ Device
    \/ \E supplied \in SUBSET (TilingOutputs \ {"subresourceTilingsNum"}) :
          getTextureTiling(supplied, 0)
    \/ \E supplied \in SUBSET (TilingOutputs \ {"subresourceTilingsNum"}),
          requested \in 0..(MaxMips + 1) :
          getTextureTiling(supplied \cup {"subresourceTilingsNum"}, requested)

SpecTiling == InitTiling /\ [][NextTiling]_vars

TilingCall == lastCall.op = "getTextureTiling"

\* the K of the claims: the first level of the mip tail, zero when the image
\* has no sparse memory requirements
StandardMips ==
    IF texture.sparseMemoryRequirements = <<>>
    THEN 0
    ELSE texture.sparseMemoryRequirements[1].imageMipTailFirstLod

\* C12: in the tilings getTextureTiling reports, the start index of level 0
\* is 0 when K > 0, the start index of every level i < K with i > 0 is that
\* of level i-1 plus the product of level i-1's three tile counts and is
\* strictly greater than it, and every reported level i >= K has three zero
\* tile counts and the start index UINT32_MAX.
C12_StartIndicesIncreaseBelowTail ==
    (TilingCall /\ lastCall.out.subresourceTilings.written) =>
        LET s == lastCall.out.subresourceTilings.values
        IN  /\ Len(s) = Min(lastCall.requested, texture.mipLevels)
            /\ \A i \in 1..Len(s) :
                  IF i - 1 < StandardMips
                  THEN /\ (i = 1) => s[i].startTileIndexInOverallResource = 0
                       /\ (i > 1) =>
                            /\ s[i].startTileIndexInOverallResource =
                                  s[i-1].startTileIndexInOverallResource
                                  + s[i-1].widthInTiles * s[i-1].heightInTiles
                                    * s[i-1].depthInTiles
                            /\ s[i].startTileIndexInOverallResource >
                                  s[i-1].startTileIndexInOverallResource
                  ELSE /\ s[i].widthInTiles = 0
                       /\ s[i].heightInTiles = 0
                       /\ s[i].depthInTiles = 0
                       /\ s[i].startTileIndexInOverallResource = UINT32_MAX

\* three levels reported for a texture of two standard mips whose first
\* level is more than one tile deep: 0, a larger index, then the sentinel
C12_Witness ==
    /\ TilingCall
    /\ lastCall.out.subresourceTilings.written
    /\ StandardMips = 2
    /\ Len(lastCall.out.subresourceTilings.values) = 3
    /\ lastCall.out.subresourceTilings.values[1].depthInTiles = 2
    /\ lastCall.out.subresourceTilings.values[1].startTileIndexInOverallResource = 0
    /\ lastCall.out.subresourceTilings.values[2].startTileIndexInOverallResource > 0
    /\ lastCall.out.subresourceTilings.values[3].startTileIndexInOverallResource
          = UINT32_MAX

\* C13: whatever subset of the outputs is supplied (the tilings array and its
\* count being supplied together), the call completes without fault, writes
\* exactly the supplied outputs, and the packed-mip descriptor it writes is
\* the one derived from the native answers, also when the sparse queries
\* return no entries.
C13_OutputsIndependentlyOptional ==
    (/\ TilingCall
     /\ ("subresourceTilingsNum" \in lastCall.supplied
            <=> "subresourceTilings" \in lastCall.supplied)) =>
        /\ lastCall.stopped = "done"
        /\ ~faulted
        /\ \A o \in TilingOutputs :
              lastCall.out[o].written <=> (o \in lastCall.supplied)
        /\ lastCall.out.desc.written =>
              /\ lastCall.out.desc.values.numStandardMips = StandardMips
              /\ lastCall.out.desc.values.numPackedMips =
                    texture.mipLevels - StandardMips

(***************************************************************************)
(* C14: the outcomes of waitForIdle (under Spec)                           *)
(***************************************************************************)
\* C14: every waitForIdle call returns to its caller, with true when the
\* native wait succeeded and with false when it reported device loss; no
\* call ends in an error that propagates.
C14_WaitForIdleReturnsTrueOrFalse ==
    lastCall.op = "waitForIdle" =>
        /\ lastCall.outcome = "returned"
        /\ \/ lastCall.native = "eSuccess" /\ lastCall.ret = TRUE
           \/ lastCall.native = "eErrorDeviceLost" /\ lastCall.ret = FALSE

(***************************************************************************)
(* SpecAdmin: construction against a device whose administrative creation  *)
(* calls may fail, then destruction                                        *)
(***************************************************************************)
CreateResults == {"eSuccess", "eErrorOutOfHostMemory", "eErrorOutOfDeviceMemory"}

AdminHardwares ==
    { [PlainHardware EXCEPT !.pipelineCacheResult = r1,
                            !.descriptorSetLayoutResult = r2,
                            !.failedHandle = g] :
        r1 \in CreateResults, r2 \in CreateResults, g \in {NULL, GarbageHandle} }

InitAdmin ==
    /\ build \in [RTXMU : BOOLEAN, AFTERMATH : {FALSE}]
    /\ hw \in AdminHardwares
    /\ desc \in DeviceDescs({<<>>},
                            SeqsUpTo({"VK_EXT_opacity_micromap",
                                      "VK_KHR_synchronization2"},
                                     MaxDeviceExtensions),
                            {FALSE})
    /\ GraphicsOnly(desc)
    /\ texture = DefaultTexture
    /\ Unconstructed

NextAdmin ==
    \/ Device
    \/ DeviceDestructor

SpecAdmin == InitAdmin /\ [][NextAdmin]_vars

ErrorsOf(messages) == SelectSeq(messages, LAMBDA m : m.severity = "Error")

ConstructionStep == pc = "new" /\ pc' # "new"
DestructionStep == pc = "live" /\ pc' = "destroyed"

\* C15: a construction step attempts createPipelineCache and then
\* createDescriptorSetLayout whatever the first returned, emits exactly one
\* Error diagnostic per failed creation and no other Error, and ends with a
\* live device; a destruction step destroys, once each, exactly the
\* administrative objects whose handle is not null.
C15_AdminFailuresAreDiagnosticOnly ==
    [][/\ ConstructionStep =>
            /\ Len(ctorLog'.created) = 2
            /\ ctorLog'.created[1] =
                  [call |-> "createPipelineCache", result |-> hw.pipelineCacheResult]
            /\ ctorLog'.created[2] =
                  [call |-> "createDescriptorSetLayout",
                   result |-> hw.descriptorSetLayoutResult]
            /\ ErrorsOf(ctorLog'.messages) =
                  (IF hw.pipelineCacheResult # "eSuccess"
                   THEN <<Message("Error", "PipelineCacheFailed")>> ELSE <<>>)
                  \o (IF hw.descriptorSetLayoutResult # "eSuccess"
                      THEN <<Message("Error", "EmptyDescriptorSetLayoutFailed")>>
                      ELSE <<>>)
            /\ pc' = "live"
            /\ ~faulted'
       /\ DestructionStep =>
            /\ \A o \in DOMAIN admin :
                  (\E i \in 1..Len(lastCall'.destroyed) :
                        lastCall'.destroyed[i].object = o)
                  <=> admin[o] # NULL
            /\ Len(lastCall'.destroyed)
                  = Cardinality({o \in DOMAIN admin : admin[o] # NULL})]_vars

\* the pipeline cache failed and left a null handle, the placeholder layout
\* was still created: one Error diagnostic, and destruction released the
\* layout alone
C15_Witness ==
    /\ pc = "destroyed"
    /\ hw.pipelineCacheResult # "eSuccess"
    /\ hw.descriptorSetLayoutResult = "eSuccess"
    /\ hw.failedHandle = NULL
    /\ Len(ctorLog.created) = 2
    /\ Len(ErrorsOf(ctorLog.messages)) = 1
    /\ lastCall.op = "~Device"
    /\ Len(lastCall.destroyed) = 1
    /\ lastCall.destroyed[1].object = "emptyDescriptorSetLayout"

(***************************************************************************)
(* SpecFormats: queryFormatSupport against every combination of native     *)
(* format feature flags                                                    *)
(***************************************************************************)
FormatFeatures ==
    [bufferFeatures : SUBSET BufferFeatureBits,
     optimalTilingFeatures : SUBSET OptimalTilingFeatureBits]

\* devices that report the same feature flags for every format
FormatHardwares ==
    { [PlainHardware EXCEPT !.formatProperties = [f \in VkFormats |-> p]] :
        p \in FormatFeatures }

InitFormats ==
    /\ build = DefaultBuild
    /\ hw \in FormatHardwares
    /\ desc \in DeviceDescs({<<>>}, {<<>>}, {FALSE})
    /\ GraphicsOnly(desc)
    /\ texture = DefaultTexture
    /\ Unconstructed

NextFormats ==
    \/ Device
    \/ \E format \in Formats : queryFormatSupport(format)

SpecFormats == InitFormats /\ [][NextFormats]_vars

\* C16: the set queryFormatSupport returns contains IndexBuffer iff the
\* format is R32_UINT or R16_UINT, whatever buffer and optimal-tiling
\* feature flags the device reports for the format.
C16_IndexBufferIffDesignatedFormat ==
    lastCall.op = "queryFormatSupport" =>
        ("IndexBuffer" \in lastCall.ret
            <=> lastCall.format \in {"R32_UINT", "R16_UINT"})

\* R16_UINT on a device that reports no feature flag for it: IndexBuffer is
\* the only category returned
C16_Witness ==
    /\ lastCall.op = "queryFormatSupport"
    /\ lastCall.format = "R16_UINT"
    /\ hw.formatProperties[convertFormat("R16_UINT")] = NoFormatFeatures
    /\ lastCall.ret = {"IndexBuffer"}

(***************************************************************************)
(* C17: the property and feature queries of the constructor (under         *)
(* SpecCaps)                                                               *)
(***************************************************************************)
\* the eight optional property blocks with the extension flag of each
OptionalBlocks ==
    { <<"accelStructProperties", "KHR_acceleration_structure">>,
      <<"rayTracingPipelineProperties", "KHR_ray_tracing_pipeline">>,
      <<"shadingRateProperties", "KHR_fragment_shading_rate">>,
      <<"conservativeRasterizationProperties", "EXT_conservative_rasterization">>,
      <<"opacityMicromapProperties", "EXT_opacity_micromap">>,
      <<"nvRayTracingInvocationReorderProperties",
        "NV_ray_tracing_invocation_reorder">>,
      <<"nvClusterAccelerationStructureProperties",
        "NV_cluster_acceleration_structure">>,
      <<"nvCoopVecProperties", "NV_cooperative_vector">> }

Occurrences(s, x) == Cardinality({i \in 1..Len(s) : s[i] = x})

\* C17: the constructor issues one property query; the subgroup block and
\* the block of every enabled extension among the eight occur in it exactly
\* once and no other block occurs; the cached record of a block whose flag
\* is false is the default one; the shading-rate feature query and the
\* cooperative-vector feature query are each issued once if the extension
\* is enabled and not at all otherwise.
C17_OneQueryWithEnabledBlocksOnly ==
    pc = "live" =>
        /\ Len(ctorLog.propertyQueries) = 1
        /\ Occurrences(ctorLog.propertyQueries[1], "subgroupProperties") = 1
        /\ \A b \in OptionalBlocks :
              /\ Occurrences(ctorLog.propertyQueries[1], b[1])
                    = IF extensions[b[2]] THEN 1 ELSE 0
              /\ ~extensions[b[2]] =>
                    props.properties[b[1]] = DefaultProperties[b[1]]
        /\ Len(ctorLog.propertyQueries[1])
              = 1 + Cardinality({b \in OptionalBlocks : extensions[b[2]]})
        /\ Occurrences(ctorLog.featureQueries, "shadingRateFeatures")
              = IF extensions["KHR_fragment_shading_rate"] THEN 1 ELSE 0
        /\ Occurrences(ctorLog.featureQueries, "coopVecFeatures")
              = IF extensions["NV_cooperative_vector"] THEN 1 ELSE 0
        /\ Len(ctorLog.featureQueries)
              = Cardinality({f \in {"KHR_fragment_shading_rate",
                                    "NV_cooperative_vector"} : extensions[f]})

\* cooperative-vector alone enabled: the query holds its block and the
\* subgroup block, its feature query was issued, the acceleration-structure
\* record is the default one
C17_Witness ==
    /\ pc = "live"
    /\ extensions["NV_cooperative_vector"]
    /\ ~extensions["KHR_acceleration_structure"]
    /\ ~extensions["KHR_fragment_shading_rate"]
    /\ SeqRange(ctorLog.propertyQueries[1])
          = {"subgroupProperties", "nvCoopVecProperties"}
    /\ ctorLog.featureQueries = <<"coopVecFeatures">>
    /\ props.properties["nvCoopVecProperties"] = [reported |-> TRUE]
    /\ props.properties["accelStructProperties"] = [reported |-> FALSE]

====
